---- MODULE Spec2Model ----
(***************************************************************************)
(* Model of automation/newsletter.py: the arrest-log extractor             *)
(* (MadisonDataScraper.parse_arrests_pdf), the crime classifier            *)
(* (MadisonDataScraper.categorize_crime) and the pipeline driver (main,    *)
(* DashboardGenerator.generate_dashboard / analyze_crime_data).            *)
(*                                                                         *)
(* A Python str is modelled as a sequence of one-character strings, so     *)
(* that lower(), strip(), split('\n'), the `in` substring test and the     *)
(* regular expression are computed character by character.                 *)
(***************************************************************************)
EXTENDS Integers, Sequences, FiniteSets, TLC

VARIABLES
    api_key,        \* main: os.environ.get('ANTHROPIC_API_KEY'), "None" when unset
    pdf,            \* the document pdfplumber opens: a sequence of pages
    pc,             \* position of the run in main / parse_arrests_pdf
    pageIdx,        \* parse_arrests_pdf: index of the page of `for page in pdf.pages`
    lines,          \* parse_arrests_pdf: text.split('\n') of the current page
    lineIdx,        \* parse_arrests_pdf: index of the next line of `for line in lines`
    arrests,        \* the list of arrest dicts (the same list object in the parser and in main)
    parseError,     \* what the `except Exception` of parse_arrests_pdf caught, if anything
    extracted,      \* main's arrests as it stood before the categorize loop
    analysis,       \* generate_dashboard: the text analyze_crime_data returned
    dashboard,      \* generate_dashboard: what was rendered into the HTML file
    charge_or_type, \* categorize_crime called on its own: the argument
    category        \* categorize_crime called on its own: the value returned

vars == <<api_key, pdf, pc, pageIdx, lines, lineIdx, arrests, parseError,
          extracted, analysis, dashboard, charge_or_type, category>>

\* Python's None where a str is expected (a str is a sequence of characters,
\* so this value is no str)
None == <<"None">>

-----------------------------------------------------------------------------
(* Characters and the character classes of Python's re on str.             *)

UpperLetters == <<"A","B","C","D","E","F","G","H","I","J","K","L","M",
                  "N","O","P","Q","R","S","T","U","V","W","X","Y","Z">>
LowerLetters == <<"a","b","c","d","e","f","g","h","i","j","k","l","m",
                  "n","o","p","q","r","s","t","u","v","w","x","y","z">>

SetOf(seq) == {seq[i] : i \in DOMAIN seq}

ClassUpper == SetOf(UpperLetters)                        \* [A-Z]
ClassDigit == {"0","1","2","3","4","5","6","7","8","9"}  \* \d
\* \s, also what strip() removes: of Python's whitespace the inputs here hold
\* the blank and the tab (a line holds no "\n")
ClassSpace == {" ", "\t"}
ClassWord  == ClassUpper \cup SetOf(LowerLetters) \cup ClassDigit \cup {"_"}  \* \w
ClassNameChar == ClassUpper \cup ClassSpace              \* [A-Z\s]

\* str.lower() on one character
LowerOfUpper ==
    [c \in ClassUpper |->
        LowerLetters[CHOOSE i \in DOMAIN UpperLetters : UpperLetters[i] = c]]

LowerChar(c) == IF c \in ClassUpper THEN LowerOfUpper[c] ELSE c

\* str.lower()
lower(s) == [i \in DOMAIN s |-> LowerChar(s[i])]

\* `sub in s` for two str
Contains(s, sub) ==
    \E i \in 0..(Len(s) - Len(sub)) : SubSeq(s, i + 1, i + Len(sub)) = sub

\* str.strip(): leading and trailing whitespace removed
RECURSIVE LStrip(_)
LStrip(s) == IF s # <<>> /\ Head(s) \in ClassSpace THEN LStrip(Tail(s)) ELSE s

RECURSIVE RStrip(_)
RStrip(s) ==
    IF s # <<>> /\ s[Len(s)] \in ClassSpace THEN RStrip(SubSeq(s, 1, Len(s) - 1)) ELSE s

strip(s) == RStrip(LStrip(s))

\* str.split('\n'): always at least one piece, "" gives [""]
RECURSIVE split_nl(_)
split_nl(s) ==
    IF \E i \in DOMAIN s : s[i] = "\n"
    THEN LET i == CHOOSE k \in DOMAIN s : s[k] = "\n" /\ \A j \in 1..(k - 1) : s[j] # "\n"
         IN  <<SubSeq(s, 1, i - 1)>> \o split_nl(SubSeq(s, i + 1, Len(s)))
    ELSE <<s>>

-----------------------------------------------------------------------------
(* categorize_crime                                                         *)

kw_assault == <<"a", "s", "s", "a", "u", "l", "t">>
kw_battery == <<"b", "a", "t", "t", "e", "r", "y">>
kw_domestic == <<"d", "o", "m", "e", "s", "t", "i", "c">>
kw_violence == <<"v", "i", "o", "l", "e", "n", "c", "e">>
kw_rape == <<"r", "a", "p", "e">>
kw_murder == <<"m", "u", "r", "d", "e", "r">>
kw_homicide == <<"h", "o", "m", "i", "c", "i", "d", "e">>
kw_robbery == <<"r", "o", "b", "b", "e", "r", "y">>
kw_weapon == <<"w", "e", "a", "p", "o", "n">>
kw_theft == <<"t", "h", "e", "f", "t">>
kw_burglary == <<"b", "u", "r", "g", "l", "a", "r", "y">>
kw_fraud == <<"f", "r", "a", "u", "d">>
kw_forgery == <<"f", "o", "r", "g", "e", "r", "y">>
kw_trespass == <<"t", "r", "e", "s", "p", "a", "s", "s">>
kw_vandalism == <<"v", "a", "n", "d", "a", "l", "i", "s", "m">>
kw_arson == <<"a", "r", "s", "o", "n">>
kw_shoplifting == <<"s", "h", "o", "p", "l", "i", "f", "t", "i", "n", "g">>

violent_keywords == <<kw_assault, kw_battery, kw_domestic, kw_violence, kw_rape,
                      kw_murder, kw_homicide, kw_robbery, kw_weapon>>

property_keywords == <<kw_theft, kw_burglary, kw_fraud, kw_forgery, kw_trespass,
                       kw_vandalism, kw_arson, kw_shoplifting>>

\* any(kw in charge for kw in keywords)
AnyKeywordIn(keywords, charge) ==
    \E k \in DOMAIN keywords : Contains(charge, keywords[k])

\* A classifier that tests the property keywords first
categorize_property_first(arg) ==
    LET charge == lower(arg)
    IN  IF AnyKeywordIn(property_keywords, charge) THEN "property"
        ELSE IF AnyKeywordIn(violent_keywords, charge) THEN "violent"
        ELSE "other"

\* A classifier that forgets to lower-case its argument
categorize_case_sensitive(arg) ==
    IF AnyKeywordIn(violent_keywords, arg) THEN "violent"
    ELSE IF AnyKeywordIn(property_keywords, arg) THEN "property"
    ELSE "other"

categorize_crime(arg) ==
    LET charge == lower(arg)
    IN  IF AnyKeywordIn(violent_keywords, charge) THEN "violent"
        ELSE IF AnyKeywordIn(property_keywords, charge) THEN "property"
        ELSE "other"

-----------------------------------------------------------------------------
(* The line pattern of parse_arrests_pdf,                                   *)
(*     re.match(r'(\d{1,2}/\d{1,2})\s+([A-Z\s]+?)\s+(\w+)\s+(.+)', line)    *)
(* matched as Python's backtracking matcher does: a greedy quantifier       *)
(* keeps the longest repetition for which the rest of the pattern matches,  *)
(* the lazy one ([A-Z\s]+?) the shortest.  Positions count consumed         *)
(* characters, so position p stands before s[p + 1].                        *)

\* the number of characters of class C that follow position p
RECURSIVE Run(_, _, _)
Run(s, p, C) == IF p < Len(s) /\ s[p + 1] \in C THEN 1 + Run(s, p + 1, C) ELSE 0

SetMax(S) == CHOOSE x \in S : \A y \in S : y <= x
SetMin(S) == CHOOSE x \in S : \A y \in S : x <= y

\* (.+) : at least one character; a line holds no "\n", so it takes all the rest
RestOK(s, p) == p < Len(s)

\* \s+(.+) from p: the lengths of the \s+ for which the rest matches
Ws3Lens(s, p) == {k \in 1..Run(s, p, ClassSpace) : RestOK(s, p + k)}

\* (\w+)\s+(.+) from p
CityLens(s, p) == {k \in 1..Run(s, p, ClassWord) : Ws3Lens(s, p + k) # {}}

\* \s+(\w+)\s+(.+) from p
Ws2Lens(s, p) == {k \in 1..Run(s, p, ClassSpace) : CityLens(s, p + k) # {}}

\* ([A-Z\s]+?)\s+(\w+)\s+(.+) from p
NameLens(s, p) == {k \in 1..Run(s, p, ClassNameChar) : Ws2Lens(s, p + k) # {}}

\* \s+([A-Z\s]+?)\s+(\w+)\s+(.+) from p
Ws1Lens(s, p) == {k \in 1..Run(s, p, ClassSpace) : NameLens(s, p + k) # {}}

\* \d{1,2} from p, followed by `tail`
DigitLens(s, p) == 1..(IF Run(s, p, ClassDigit) > 2 THEN 2 ELSE Run(s, p, ClassDigit))

\* the second \d{1,2} of the date, from p
Day2Lens(s, p) == {k \in DigitLens(s, p) : Ws1Lens(s, p + k) # {}}

\* /\d{1,2}... from p
SlashOK(s, p) == p < Len(s) /\ s[p + 1] = "/" /\ Day2Lens(s, p + 1) # {}

\* the first \d{1,2} of the date, from the start of the line (re.match anchors there)
Day1Lens(s) == {k \in DigitLens(s, 0) : SlashOK(s, k)}

\* whether re.match finds a match
LineMatches(s) == Day1Lens(s) # {}

\* match.groups() of a matching line, as the four captured strings
match_groups(s) ==
    LET d1 == SetMax(Day1Lens(s))                 \* greedy
        d2 == SetMax(Day2Lens(s, d1 + 1))         \* greedy
        dateEnd == d1 + 1 + d2
        w1 == SetMax(Ws1Lens(s, dateEnd))         \* greedy
        nameStart == dateEnd + w1
        n  == SetMin(NameLens(s, nameStart))      \* lazy
        nameEnd == nameStart + n
        w2 == SetMax(Ws2Lens(s, nameEnd))         \* greedy
        cityStart == nameEnd + w2
        c  == SetMax(CityLens(s, cityStart))      \* greedy
        cityEnd == cityStart + c
        w3 == SetMax(Ws3Lens(s, cityEnd))         \* greedy
    IN  [date   |-> SubSeq(s, 1, dateEnd),
         name   |-> SubSeq(s, nameStart + 1, nameEnd),
         city   |-> SubSeq(s, cityStart + 1, cityEnd),
         charge |-> SubSeq(s, cityEnd + w3 + 1, Len(s))]

MADISON_POLICE == <<"M","A","D","I","S","O","N"," ","P","O","L","I","C","E">>
ARREST == <<"A","R","R","E","S","T">>

\* a header test that looks for 'MADISON POLICE' alone
is_header_police_only(line) == Contains(line, MADISON_POLICE)

\* `'MADISON POLICE' in line or 'ARREST' in line`
is_header(line) == Contains(line, MADISON_POLICE) \/ Contains(line, ARREST)

\* the dict appended for a matching line
arrest_of(g) ==
    [date   |-> strip(g.date),
     name   |-> strip(g.name),
     city   |-> strip(g.city),
     charge |-> strip(g.charge)]

-----------------------------------------------------------------------------
(* Inputs: the lines, page texts and tables a document may hold, and the    *)
(* charge strings the classifier is called with.                            *)

L_HEADER == <<"M", "A", "D", "I", "S", "O", "N", " ", "P", "O", "L", "I", "C", "E", " ", "A", "R", "R", "E", "S", "T", " ", "L", "O", "G">>
L_RECORD == <<"3", "/", "1", "4", " ", "J", "O", "H", "N", " ", "D", "O", "E", " ", "M", "a", "d", "i", "s", "o", "n", " ", "T", "h", "e", "f", "t", " ", "o", "f", " ", "P", "r", "o", "p", "e", "r", "t", "y">>
L_SMITH == <<"3", "/", "1", "4", " ", "S", "M", "I", "T", "H">>
L_RESIST == <<"3", "/", "1", "5", " ", "J", "A", "N", "E", " ", "R", "O", "E", " ", "M", "a", "d", "i", "s", "o", "n", " ", "R", "e", "s", "i", "s", "t", "i", "n", "g", " ", "a", "r", "r", "e", "s", "t">>
L_WARRANT == <<"3", "/", "1", "6", " ", "B", "O", "B", " ", "R", "A", "Y", " ", "M", "a", "d", "i", "s", "o", "n", " ", "A", "R", "R", "E", "S", "T", " ", "W", "A", "R", "R", "A", "N", "T">>
L_ASSAULT == <<"3", "/", "1", "6", " ", "A", "M", "Y", " ", "M", "a", "d", "i", "s", "o", "n", " ", " ", "D", "o", "m", "e", "s", "t", "i", "c", " ", "A", "s", "s", "a", "u", "l", "t", " ">>
L_DUP_CITY == <<"3", "/", "1", "4", " ", "J", "O", "H", "N", " ", "R", "O", "E", " ", "M", "a", "d", "i", "s", "o", "n", " ", "T", "h", "e", "f", "t", " ", "o", "f", " ", "P", "r", "o", "p", "e", "r", "t", "y">>
L_NODATE == <<"P", "a", "g", "e", " ", "1", " ", "o", "f", " ", "2">>
S_3_14 == <<"3", "/", "1", "4">>
S_3_17 == <<"3", "/", "1", "7">>
S_JOHN_DOE == <<"J", "O", "H", "N", " ", "D", "O", "E">>
S_AL_POE == <<"A", "L", " ", "P", "O", "E">>
S_SMITH == <<"S", "M", "I", "T", "H">>
S_Madison == <<"M", "a", "d", "i", "s", "o", "n">>
S_Athens == <<"A", "t", "h", "e", "n", "s">>
S_Unknown == <<"U", "n", "k", "n", "o", "w", "n">>
S_Fraud == <<"F", "r", "a", "u", "d">>
S_Theft_of_Property == <<"T", "h", "e", "f", "t", " ", "o", "f", " ", "P", "r", "o", "p", "e", "r", "t", "y">>
S_extra == <<"B", "o", "o", "k", "e", "d">>
L_BLANK == <<>>

NL == <<"\n">>

\* '\n'.join(ls), the text a page holds for the lines ls
RECURSIVE join_nl(_)
join_nl(ls) ==
    IF Len(ls) = 1 THEN ls[1] ELSE ls[1] \o NL \o join_nl(Tail(ls))

\* the texts page.extract_text() may give: None for a page without a text layer
PageTexts ==
    { join_nl(<<L_HEADER, L_RECORD, L_ASSAULT>>),
      join_nl(<<L_RECORD, L_DUP_CITY>>),
      join_nl(<<L_SMITH, L_RESIST>>),
      join_nl(<<L_WARRANT, L_BLANK, L_RECORD>>),
      join_nl(<<L_NODATE>>),
      join_nl(<<L_BLANK>>),
      None }

\* a tabular grid of a page: rows of cells
TABLE == << <<S_3_17, S_AL_POE, S_Athens, S_Fraud, S_extra>>,
            <<S_3_14, S_JOHN_DOE, S_Madison, S_Theft_of_Property>>,
            <<S_3_17, S_SMITH, None>> >>

\* the pages of a document: text and tables (the code reads the text alone)
Pages ==
    [text : PageTexts, tables : {<<>>}]
    \cup [text : {join_nl(<<L_RECORD, L_DUP_CITY>>), join_nl(<<L_BLANK>>), None},
          tables : {<<TABLE>>}]

\* the most pages a document holds
MaxPages == 2

SeqsUpTo(S, n) == UNION {[1..k -> S] : k \in 0..n}

Documents == SeqsUpTo(Pages, MaxPages)

F_ASSAULT == <<"A", "S", "S", "A", "U", "L", "T">>
F_Battery == <<"B", "a", "t", "t", "e", "r", "y">>
F_domestic == <<"d", "o", "m", "e", "s", "t", "i", "c">>
F_VIOLENCE == <<"V", "I", "O", "L", "E", "N", "C", "E">>
F_Grape == <<"G", "r", "a", "p", "e">>
F_murder == <<"m", "U", "r", "D", "e", "R">>
F_HOMICIDE == <<"H", "O", "M", "I", "C", "I", "D", "E">>
F_Robbery == <<"R", "o", "b", "b", "e", "r", "y">>
F_weapon == <<"w", "e", "a", "p", "o", "n">>
F_THEFT == <<"T", "H", "E", "F", "T">>
F_Burglary == <<"B", "u", "r", "g", "l", "a", "r", "y">>
F_fraud == <<"f", "r", "a", "u", "d">>
F_FORGERY == <<"F", "O", "R", "G", "E", "R", "Y">>
F_Trespass == <<"T", "r", "e", "s", "p", "a", "s", "s">>
F_vandalism == <<"v", "a", "n", "d", "a", "l", "i", "s", "m">>
F_ARSON == <<"A", "R", "S", "O", "N">>
F_Shoplifting == <<"S", "h", "o", "p", "l", "i", "f", "t", "i", "n", "g">>
F_the == <<"T", "h", "e">>
F_ft == <<"F", "T">>
F_jaywalking == <<"j", "a", "y", "w", "a", "l", "k", "i", "n", "g">>
F_DUI == <<"D", "U", "I", " ", "2", "n", "d">>
F_SPACE == <<" ">>
F_TAB == <<"\t">>

Fragments ==
    { F_ASSAULT, F_Battery, F_domestic, F_VIOLENCE, F_Grape, F_murder, F_HOMICIDE,
      F_Robbery, F_weapon, F_THEFT, F_Burglary, F_fraud, F_FORGERY, F_Trespass,
      F_vandalism, F_ARSON, F_Shoplifting, F_the, F_ft, F_jaywalking, F_DUI,
      F_SPACE, F_TAB }

\* the most fragments a charge string is put together from
MaxFrags == 2

RECURSIVE Concat(_)
Concat(ss) == IF ss = <<>> THEN <<>> ELSE Head(ss) \o Concat(Tail(ss))

Charges == {Concat(fs) : fs \in SeqsUpTo(Fragments, MaxFrags)}

-----------------------------------------------------------------------------
(* parse_arrests_pdf                                                        *)

\* an append that drops a dict whose (date, name, charge) is already in the list
append_if_new(list, recs) ==
    IF recs # <<>> /\ \E i \in DOMAIN list :
           /\ list[i].date = recs[1].date
           /\ list[i].name = recs[1].name
           /\ list[i].charge = recs[1].charge
    THEN list
    ELSE list \o recs

\* arrests.append(...) for the zero or one dict a line gives
append_arrest(list, recs) == list \o recs

\* a line loop with a second pattern: a date and at least one more token give a
\* dict with default city and charge
records_of_line_fallback(line) ==
    IF is_header(line) THEN <<>>
    ELSE IF LineMatches(line) THEN <<arrest_of(match_groups(line))>>
    ELSE IF Run(line, 0, ClassDigit) >= 1 /\ Contains(line, <<"/">>)
         THEN LET d == Run(line, 0, ClassDigit \cup {"/"})
              IN  <<[date |-> SubSeq(line, 1, d),
                     name |-> strip(SubSeq(line, d + 1, Len(line))),
                     city |-> S_Madison, charge |-> S_Unknown]>>
         ELSE <<>>

\* the body of `for line in lines`: the dicts (none or one) the line adds
records_of_line(line) ==
    IF is_header(line) THEN <<>>
    ELSE IF LineMatches(line) THEN <<arrest_of(match_groups(line))>>
    ELSE <<>>

\* the dicts a table strategy would add for the rows of a page's tables
RECURSIVE rows_records(_)
rows_records(rows) ==
    IF rows = <<>> THEN <<>>
    ELSE (IF Len(Head(rows)) >= 4
          THEN <<[date |-> Head(rows)[1], name |-> Head(rows)[2],
                  city |-> Head(rows)[3], charge |-> Head(rows)[4]]>>
          ELSE <<>>) \o rows_records(Tail(rows))

\* main, line 468-471: the credential is read, and the run exits without it
GetApiKey ==
    /\ pc = "main"
    /\ pc' = IF api_key \in {"None", ""} THEN "exit" ELSE "download"
    /\ UNCHANGED <<api_key, pdf, pageIdx, lines, lineIdx, arrests, parseError,
                   extracted, analysis, dashboard, charge_or_type, category>>

\* main, line 478-481: download_pdf gave a file name, parse_arrests_pdf is entered
DownloadOk ==
    /\ pc = "download"
    /\ pc' = "open"
    /\ arrests' = <<>>
    /\ UNCHANGED <<api_key, pdf, pageIdx, lines, lineIdx, parseError,
                   extracted, analysis, dashboard, charge_or_type, category>>

\* main, line 478-484: download_pdf caught an error and gave None: arrests = []
DownloadFails ==
    /\ pc = "download"
    /\ pc' = "categorize"
    /\ arrests' = <<>>
    /\ extracted' = <<>>
    /\ UNCHANGED <<api_key, pdf, pageIdx, lines, lineIdx, parseError,
                   analysis, dashboard, charge_or_type, category>>

\* pdfplumber.open(pdf_path) succeeds
OpenPdf ==
    /\ pc = "open"
    /\ pc' = "page"
    /\ pageIdx' = 1
    /\ UNCHANGED <<api_key, pdf, lines, lineIdx, arrests, parseError,
                   extracted, analysis, dashboard, charge_or_type, category>>

\* pdfplumber.open(pdf_path) raises: caught at line 77
OpenFails ==
    /\ pc = "open"
    /\ pc' = "return"
    /\ parseError' = "open"
    /\ UNCHANGED <<api_key, pdf, pageIdx, lines, lineIdx, arrests,
                   extracted, analysis, dashboard, charge_or_type, category>>

\* a page step without the handler of line 77: the AttributeError of
\* None.split leaves parse_arrests_pdf and nothing is returned
NextPage_uncaught ==
    /\ pc = "page"
    /\ IF pageIdx > Len(pdf)
       THEN /\ pc' = "return"
            /\ UNCHANGED <<lines, lineIdx, parseError>>
       ELSE IF pdf[pageIdx].text = None
       THEN /\ pc' = "raised"
            /\ parseError' = "text"
            /\ UNCHANGED <<lines, lineIdx>>
       ELSE /\ pc' = "line"
            /\ lines' = split_nl(pdf[pageIdx].text)
            /\ lineIdx' = 1
            /\ UNCHANGED parseError
    /\ UNCHANGED <<api_key, pdf, pageIdx, arrests, extracted, analysis, dashboard,
                   charge_or_type, category>>

\* a page step that first adds the dicts of the page's table rows
NextPage_with_tables ==
    /\ pc = "page"
    /\ IF pageIdx > Len(pdf)
       THEN /\ pc' = "return"
            /\ UNCHANGED <<lines, lineIdx, parseError, arrests>>
       ELSE /\ arrests' = arrests \o rows_records(Concat(pdf[pageIdx].tables))
            /\ IF pdf[pageIdx].text = None
               THEN /\ pc' = "return"
                    /\ parseError' = "text"
                    /\ UNCHANGED <<lines, lineIdx>>
               ELSE /\ pc' = "line"
                    /\ lines' = split_nl(pdf[pageIdx].text)
                    /\ lineIdx' = 1
                    /\ UNCHANGED parseError
    /\ UNCHANGED <<api_key, pdf, pageIdx, extracted, analysis, dashboard,
                   charge_or_type, category>>

\* `for page in pdf.pages`, lines 54-59: the next page's text is split into
\* lines; text.split raises AttributeError on None, caught at line 77, which
\* ends the loop over the pages
NextPage ==
    /\ pc = "page"
    /\ IF pageIdx > Len(pdf)
       THEN /\ pc' = "return"
            /\ UNCHANGED <<lines, lineIdx, parseError>>
       ELSE IF pdf[pageIdx].text = None
       THEN /\ pc' = "return"
            /\ parseError' = "text"
            /\ UNCHANGED <<lines, lineIdx>>
       ELSE /\ pc' = "line"
            /\ lines' = split_nl(pdf[pageIdx].text)
            /\ lineIdx' = 1
            /\ UNCHANGED parseError
    /\ UNCHANGED <<api_key, pdf, pageIdx, arrests, extracted, analysis, dashboard,
                   charge_or_type, category>>

\* `for line in lines`, lines 61-75: one line is skipped, matched or dropped
ProcessLine ==
    /\ pc = "line"
    /\ arrests' = append_arrest(arrests, records_of_line(lines[lineIdx]))
    /\ lineIdx' = lineIdx + 1
    /\ IF lineIdx = Len(lines)
       THEN pc' = "page" /\ pageIdx' = pageIdx + 1
       ELSE pc' = "line" /\ UNCHANGED pageIdx
    /\ UNCHANGED <<api_key, pdf, lines, parseError, extracted, analysis, dashboard,
                   charge_or_type, category>>

\* `return arrests`, line 80, into main's arrests, line 481
ParseReturn ==
    /\ pc = "return"
    /\ pc' = "categorize"
    /\ extracted' = arrests
    /\ UNCHANGED <<api_key, pdf, pageIdx, lines, lineIdx, arrests, parseError,
                   analysis, dashboard, charge_or_type, category>>

-----------------------------------------------------------------------------
(* main after the extraction, and generate_dashboard                        *)

\* a categorize loop that classifies the name in place of the charge
with_category_of_name(a) ==
    [date |-> a.date, name |-> a.name, city |-> a.city, charge |-> a.charge,
     category |-> categorize_crime(a.name)]

\* arrest['category'] = crime_scraper.categorize_crime(arrest.get('charge', ''))
with_category(a) ==
    [date |-> a.date, name |-> a.name, city |-> a.city, charge |-> a.charge,
     category |-> categorize_crime(a.charge)]

\* main, lines 491-492: every dict of arrests gets its category.  (Lines
\* 487 and 495-503, the incident and registry scrapers, catch their own
\* errors and touch neither arrests nor the credential.)
Categorize ==
    /\ pc = "categorize"
    /\ pc' = "analyze"
    /\ arrests' = [i \in DOMAIN arrests |-> with_category(arrests[i])]
    /\ UNCHANGED <<api_key, pdf, pageIdx, lines, lineIdx, parseError,
                   extracted, analysis, dashboard, charge_or_type, category>>

\* sum(1 for a in arrests if cat in a.get('category', ''))
count_category(list, cat) == Cardinality({i \in DOMAIN list : list[i].category = cat})

\* analyze_crime_data, lines 233-240: the language-model call returns its text
AnalyzeOk ==
    /\ pc = "analyze"
    /\ pc' = "render"
    /\ analysis' = [source |-> "model",
                    total_arrests |-> Len(arrests),
                    violent_count |-> count_category(arrests, "violent"),
                    property_count |-> count_category(arrests, "property")]
    /\ UNCHANGED <<api_key, pdf, pageIdx, lines, lineIdx, arrests, parseError,
                   extracted, dashboard, charge_or_type, category>>

\* analyze_crime_data, lines 242-244: the call raises, fallback_analysis is returned
AnalyzeFails ==
    /\ pc = "analyze"
    /\ pc' = "render"
    /\ analysis' = [source |-> "fallback",
                    total_arrests |-> Len(arrests),
                    violent_count |-> count_category(arrests, "violent"),
                    property_count |-> count_category(arrests, "property")]
    /\ UNCHANGED <<api_key, pdf, pageIdx, lines, lineIdx, arrests, parseError,
                   extracted, dashboard, charge_or_type, category>>

\* generate_arrests_table renders arrests[:10]
ArrestsTableRows == 10

\* calculate_stats: 'total_arrests': len(arrests) or 5
DefaultTotalArrests == 5

\* list[:n]
take(list, n) == SubSeq(list, 1, IF Len(list) < n THEN Len(list) ELSE n)

\* one <tr> of generate_arrests_table
table_row(a) == <<a.date, a.name, a.city, a.charge>>

\* generate_dashboard, lines 273-402: the stats and the arrests table are
\* computed and the HTML is written
Render ==
    /\ pc = "render"
    /\ pc' = "done"
    /\ dashboard' =
         [written |-> TRUE,
          analysis |-> analysis.source,
          total_arrests |-> IF Len(arrests) = 0 THEN DefaultTotalArrests ELSE Len(arrests),
          violent_crime |->
              Cardinality({i \in DOMAIN arrests : categorize_crime(arrests[i].charge) = "violent"}),
          property_crime |->
              Cardinality({i \in DOMAIN arrests : categorize_crime(arrests[i].charge) = "property"}),
          rows |-> [i \in DOMAIN take(arrests, ArrestsTableRows) |-> table_row(arrests[i])]]
    /\ UNCHANGED <<api_key, pdf, pageIdx, lines, lineIdx, arrests, parseError,
                   extracted, analysis, charge_or_type, category>>

\* the values of the ANTHROPIC_API_KEY environment variable
ApiKeys == {"None", "", "sk-ant-key"}

NoAnalysis == [source |-> "None", total_arrests |-> 0, violent_count |-> 0,
               property_count |-> 0]

NoDashboard == [written |-> FALSE, analysis |-> "None", total_arrests |-> 0,
                violent_crime |-> 0, property_crime |-> 0, rows |-> <<>>]

Init ==
    /\ api_key \in ApiKeys
    /\ pdf \in Documents
    /\ pc = "main"
    /\ pageIdx = 0
    /\ lines = <<>>
    /\ lineIdx = 0
    /\ arrests = <<>>
    /\ parseError = "None"
    /\ extracted = <<>>
    /\ analysis = NoAnalysis
    /\ dashboard = NoDashboard
    /\ charge_or_type = <<>>
    /\ category = "None"

Next ==
    \/ GetApiKey
    \/ DownloadOk
    \/ DownloadFails
    \/ OpenPdf
    \/ OpenFails
    \/ NextPage
    \/ ProcessLine
    \/ ParseReturn
    \/ Categorize
    \/ AnalyzeOk
    \/ AnalyzeFails
    \/ Render

Spec == Init /\ [][Next]_vars

-----------------------------------------------------------------------------
(* categorize_crime called on its own, on every charge string of Charges    *)

InitCategorize ==
    /\ api_key = "None"
    /\ pdf = <<>>
    /\ pc = "call"
    /\ pageIdx = 0
    /\ lines = <<>>
    /\ lineIdx = 0
    /\ arrests = <<>>
    /\ parseError = "None"
    /\ extracted = <<>>
    /\ analysis = NoAnalysis
    /\ dashboard = NoDashboard
    /\ charge_or_type \in Charges
    /\ category = "None"

CallCategorize ==
    /\ pc = "call"
    /\ pc' = "called"
    /\ category' = categorize_crime(charge_or_type)
    /\ UNCHANGED <<api_key, pdf, pageIdx, lines, lineIdx, arrests, parseError,
                   extracted, analysis, dashboard, charge_or_type>>

NextCategorize == CallCategorize

SpecCategorize == InitCategorize /\ [][NextCategorize]_vars

-----------------------------------------------------------------------------
(* What the claims speak of                                                 *)

\* a and b are the same character, or the same letter in different cases
CasePairs ==
    {<<UpperLetters[i], LowerLetters[i]>> : i \in DOMAIN UpperLetters}
    \cup {<<LowerLetters[i], UpperLetters[i]>> : i \in DOMAIN UpperLetters}

SameLetter(a, b) == a = b \/ <<a, b>> \in CasePairs

\* kw occurs in s in some letter case (upper, lower or mixed)
ContainsAnyCase(s, kw) ==
    \E i \in 0..(Len(s) - Len(kw)) : \A j \in 1..Len(kw) : SameLetter(s[i + j], kw[j])

HasViolentKeyword(s) ==
    \E k \in DOMAIN violent_keywords : ContainsAnyCase(s, violent_keywords[k])

HasPropertyKeyword(s) ==
    \E k \in DOMAIN property_keywords : ContainsAnyCase(s, property_keywords[k])

\* the extractor was entered and has just returned into main
Parsed == pc = "categorize" /\ (pageIdx >= 1 \/ parseError = "open")

\* the line the last ProcessLine step worked on
LineDone == pc \in {"line", "page"} /\ lineIdx > 1
LastLine == lines[lineIdx - 1]

SameKey(a, b) == a.date = b.date /\ a.name = b.name /\ a.charge = b.charge

\* the dicts of the lines of one page's text, in line order
RECURSIVE lines_records(_)
lines_records(ls) ==
    IF ls = <<>> THEN <<>> ELSE records_of_line(Head(ls)) \o lines_records(Tail(ls))

RecordsOfText == [t \in PageTexts \ {None} |-> lines_records(split_nl(t))]

page_records(page) == RecordsOfText[page.text]

\* the dicts of the pages in page order, up to the first page without text
RECURSIVE records_read(_)
records_read(pages) ==
    IF pages = <<>> \/ Head(pages).text = None THEN <<>>
    ELSE page_records(Head(pages)) \o records_read(Tail(pages))

\* s starts with \d{1,2}/\d{1,2}
StartsWithDate(s) ==
    \E a \in 1..2, b \in 1..2 :
        /\ Len(s) >= a + 1 + b
        /\ \A i \in 1..a : s[i] \in ClassDigit
        /\ s[a + 1] = "/"
        /\ \A i \in (a + 2)..(a + 1 + b) : s[i] \in ClassDigit

-----------------------------------------------------------------------------
(* C1: every charge string that contains a violent keyword in any letter    *)
(* case is classified 'violent', also when it contains a property keyword.  *)
C1_ViolentPrecedence ==
    (pc = "called" /\ HasViolentKeyword(charge_or_type)) => category = "violent"

C1_Witness ==
    /\ pc = "called"
    /\ HasViolentKeyword(charge_or_type)
    /\ HasPropertyKeyword(charge_or_type)
    /\ category = "violent"

(* C2: a charge string with no violent and no property keyword, the empty   *)
(* and the whitespace-only string included, is classified 'other' and the   *)
(* call always returns one of the three categories; the result is           *)
(* 'property' exactly when no violent keyword and at least one property     *)
(* keyword is present.                                                      *)
C2_OtherAndProperty ==
    pc = "called" =>
        /\ category \in {"violent", "property", "other"}
        /\ (~HasViolentKeyword(charge_or_type) /\ ~HasPropertyKeyword(charge_or_type))
               => category = "other"
        /\ category = "property"
               <=> (~HasViolentKeyword(charge_or_type) /\ HasPropertyKeyword(charge_or_type))

C2_Witness ==
    /\ pc = "called"
    /\ charge_or_type # <<>>
    /\ \A i \in DOMAIN charge_or_type : charge_or_type[i] \in ClassSpace
    /\ category = "other"

-----------------------------------------------------------------------------
\* the (date, name, charge) keys of the returned list are pairwise distinct
NoDuplicateKeys(list) ==
    \A i, j \in DOMAIN list : i < j => ~SameKey(list[i], list[j])

C4_OnlyNullPageSkipped ==
    (Parsed /\ parseError # "open"
        /\ Cardinality({p \in DOMAIN pdf : pdf[p].text = None}) = 1)
    => \A p \in DOMAIN pdf :
           pdf[p].text # None =>
               \A k \in DOMAIN page_records(pdf[p]) :
                   \E i \in DOMAIN extracted : extracted[i] = page_records(pdf[p])[k]

(* C5: the line "3/14 JOHN DOE Madison Theft of Property" produces the      *)
(* record with date "3/14", name "JOHN DOE", city "Madison" and charge      *)
(* "Theft of Property".                                                     *)
C5_MultiWordName ==
    (LineDone /\ LastLine = L_RECORD) =>
        /\ arrests # <<>>
        /\ arrests[Len(arrests)] =
               [date |-> S_3_14, name |-> S_JOHN_DOE, city |-> S_Madison,
                charge |-> S_Theft_of_Property]

(* C6 as claimed: a line that contains "MADISON POLICE" or "ARREST" in any  *)
(* letter case contributes no record.                                       *)
C6_HeaderAnyCase ==
    [][(pc = "line" /\ (\/ ContainsAnyCase(lines[lineIdx], MADISON_POLICE)
                         \/ ContainsAnyCase(lines[lineIdx], ARREST)))
         => arrests' = arrests]_vars

(* C6 as amended: a line that contains "MADISON POLICE" or "ARREST" in      *)
(* upper case, exactly as written, contributes no record, whatever else it  *)
(* contains; the markers in lower or mixed case do not make a header.       *)
C6_UpperCaseHeaderSkipped ==
    [][(pc = "line" /\ (\/ Contains(lines[lineIdx], MADISON_POLICE)
                         \/ Contains(lines[lineIdx], ARREST)))
         => arrests' = arrests]_vars

C6_Witness ==
    /\ LineDone
    /\ Contains(LastLine, ARREST)
    /\ ~Contains(LastLine, MADISON_POLICE)
    /\ StartsWithDate(LastLine)
    /\ LineMatches(LastLine)

-----------------------------------------------------------------------------
\* the record a table row maps to, cell by cell
row_record(row) ==
    [date |-> row[1], name |-> row[2], city |-> row[3], charge |-> row[4]]

\* the rows of the tables of a page that qualify: 4 cells or more, a date first
QualifyingRows(page) ==
    {row \in UNION {SetOf(page.tables[t]) : t \in DOMAIN page.tables} :
         Len(row) >= 4 /\ StartsWithDate(row[1])}

\* rec is what some line of some page's text gives
LineDerived(rec) ==
    \E p \in DOMAIN pdf :
        /\ pdf[p].text # None
        /\ \E k \in DOMAIN page_records(pdf[p]) : page_records(pdf[p])[k] = rec

CategoryOf(charge) ==
    IF HasViolentKeyword(charge) THEN "violent"
    ELSE IF HasPropertyKeyword(charge) THEN "property"
    ELSE "other"

(* C9: every arrest record handed to the summarizer and to the renderer     *)
(* has a category, the category is the classification of the record's own   *)
(* charge, and its date, name, city and charge are as extracted.            *)
C9_Classified ==
    pc \in {"analyze", "render", "done"} =>
        /\ Len(arrests) = Len(extracted)
        /\ \A i \in DOMAIN arrests :
               /\ "category" \in DOMAIN arrests[i]
               /\ arrests[i].category = CategoryOf(arrests[i].charge)
               /\ arrests[i].date = extracted[i].date
               /\ arrests[i].name = extracted[i].name
               /\ arrests[i].city = extracted[i].city
               /\ arrests[i].charge = extracted[i].charge
        /\ pc = "done" =>
               \A i \in DOMAIN dashboard.rows :
                   dashboard.rows[i] = <<extracted[i].date, extracted[i].name,
                                         extracted[i].city, extracted[i].charge>>

C9_Witness ==
    /\ pc = "done"
    /\ dashboard.written
    /\ \E i, j \in DOMAIN arrests :
           arrests[i].category = "violent" /\ arrests[j].category = "property"

(* C10: in every run, with the credential missing or with the               *)
(* language-model call failing, the arrest records are extracted,           *)
(* classified and rendered into the dashboard.                              *)
C10_SummaryNeverBlocks ==
    pc \in {"exit", "done"} =>
        /\ dashboard.written
        /\ dashboard.analysis \in {"model", "fallback"}
        /\ Len(dashboard.rows) = Len(take(arrests, ArrestsTableRows))

-----------------------------------------------------------------------------
\* the positions of a run inside parse_arrests_pdf
InExtractor == {"open", "page", "line", "return"}

\* the positions a run of main can be in
Positions ==
    {"main", "exit", "download", "categorize", "analyze", "render", "done"}
    \cup InExtractor

\* the dicts of the lines the loops have gone through so far
RecordsSoFar ==
    records_read(SubSeq(pdf, 1, pageIdx - 1))
        \o (IF pc = "line" THEN lines_records(SubSeq(lines, 1, lineIdx - 1)) ELSE <<>>)

(* C11: no exception leaves the extractor.  Whatever the document (a page   *)
(* with null text, a document that cannot be opened, lines that match no    *)
(* pattern), a run inside parse_arrests_pdf always has a next step until    *)
(* the list is returned to main, and never ends in an error; while the      *)
(* loops run, the list holds exactly the records of the lines gone through, *)
(* so a line that matches no pattern adds nothing and the lines after it    *)
(* are processed.                                                           *)
C11_NoExceptionLeaves ==
    /\ pc \in Positions
    /\ pc = "open" => ENABLED (OpenPdf \/ OpenFails)
    /\ pc = "page" => ENABLED NextPage
    /\ pc = "line" => lineIdx \in DOMAIN lines     \* ProcessLine has its line
    /\ pc = "return" => ENABLED ParseReturn
    /\ pc \in {"page", "line"} => arrests = RecordsSoFar
    /\ pc = "return" => arrests = (IF parseError = "open" THEN <<>> ELSE records_read(pdf))
    /\ (pc = "categorize" /\ parseError # "None") => extracted = arrests

C11_Witness ==
    /\ Parsed
    /\ parseError = "text"
    /\ extracted # <<>>
    /\ \E k \in 1..(Len(split_nl(pdf[1].text)) - 1) :
           LET ls == split_nl(pdf[1].text)
           IN  /\ ~is_header(ls[k])
               /\ ~LineMatches(ls[k])
               /\ records_of_line(ls[k + 1]) # <<>>
               /\ extracted[1] = records_of_line(ls[k + 1])[1]

====
